---- MODULE Spec2Model ----
(***************************************************************************)
(* A model of the RAG pipeline of the repository: the sentence chunker     *)
(* (DocumentProcessor), the embedding gateway (EmbeddingGenerator), the    *)
(* vector index adapter (VectorStore) and the orchestrator (RAGRetriever). *)
(*                                                                         *)
(* Texts are sequences of one-character strings, so that replace, split,  *)
(* strip, join and the token count are computed as the code computes them. *)
(***************************************************************************)
EXTENDS Integers, Sequences, FiniteSets, TLC

VARIABLES
    text,        \* the text handed to DocumentProcessor.chunk_text
    chunk_size,  \* DocumentProcessor.chunk_size of the processor under test
    chunks,      \* what chunk_text returned
    pc,          \* "idle" before the call of chunk_text, "done" after it
    phase,       \* the RAGRetriever: "Uninitialized", then "CollectionReady"
    collections, \* the vector store: collection name -> size, distance, points
    issued,      \* how many uuids uuid4() has handed out
    requests,    \* the requests the last call made to the store and providers
    last,        \* the last call: its arguments and how it ended
    conversation, \* the ConversationManager: its max_history and its history
    clients      \* the VectorStore clients of one server: where each one is in
                 \* create_collection

vars == <<text, chunk_size, chunks, pc, phase, collections, issued, requests, last,
          conversation, clients>>

chunker_vars == <<text, chunk_size, chunks, pc>>
pipeline_vars == <<phase, collections, issued, requests, last>>

---------------------------------------------------------------------------
(* Bounds of the model. *)

MaxTextLen == 7
MaxChunkSize == 3
\* The chunk size the pipeline's processor is configured with (CHUNK_SIZE).
PipelineChunkSize == 3
\* No new points are written once the collection holds this many.
MaxPoints == 2
\* The longest list handed to generate_embeddings_batch on its own.
MaxBatch == 3
\* The most sentences in a text that is written sentence by sentence.
MaxSentences == 4
\* the largest max_history a ConversationManager is constructed with
MaxHistory == 2
\* how many turns are added to one ConversationManager
MaxTurns == 3
\* how many VectorStore clients share one store server
MaxClients == 3

Clients == 1..MaxClients

---------------------------------------------------------------------------
(* Characters and strings. *)

SP == " "
NL == "\n"
DOT == "."
Letters == {"a"}
Whitespace == {SP, NL}
Alphabet == Letters \cup {DOT} \cup Whitespace

\* Python's None where a text is expected: no character of the alphabet.
NoneText == <<"None">>

EmptyMap == [k \in {} |-> ""]

AllTexts == UNION {[1..n -> Alphabet] : n \in 0..MaxTextLen}

\* str.replace('\n', ' ')
ReplaceNewlines(s) == [i \in 1..Len(s) |-> IF s[i] = NL THEN SP ELSE s[i]]

\* str.strip(): leading and trailing whitespace removed
Strip(s) ==
    LET keep == {i \in 1..Len(s) : s[i] \notin Whitespace}
    IN  IF keep = {} THEN <<>>
        ELSE LET lo == CHOOSE i \in keep : \A j \in keep : i <= j
                 hi == CHOOSE i \in keep : \A j \in keep : j <= i
             IN  SubSeq(s, lo, hi)

\* str.split('. '): the pieces between the non-overlapping occurrences of
\* period+space, scanned from the left; always at least one piece
RECURSIVE SplitDotSpace(_)
SplitDotSpace(s) ==
    LET hits == {i \in 1..(Len(s) - 1) : s[i] = DOT /\ s[i + 1] = SP}
    IN  IF hits = {} THEN <<s>>
        ELSE LET i == CHOOSE h \in hits : \A g \in hits : h <= g
             IN  <<SubSeq(s, 1, i - 1)>> \o SplitDotSpace(SubSeq(s, i + 2, Len(s)))

\* str.endswith('.')
EndsWithDot(s) == Len(s) > 0 /\ s[Len(s)] = DOT

\* ' '.join(parts)
RECURSIVE JoinSpace(_)
JoinSpace(parts) ==
    IF Len(parts) = 0 THEN <<>>
    ELSE IF Len(parts) = 1 THEN parts[1]
    ELSE parts[1] \o <<SP>> \o JoinSpace(Tail(parts))

\* parts[-2:]
LastTwo(parts) ==
    IF Len(parts) <= 2 THEN parts ELSE SubSeq(parts, Len(parts) - 1, Len(parts))

---------------------------------------------------------------------------
(* DocumentProcessor *)

\* count_tokens: the length of the tokenizer's encoding.  The tokenizer is
\* the external byte-pair encoder; it is modelled by its word-level shape: a
\* token starts at every run of letters and at every run of periods, and
\* whitespace belongs to the token that follows it.
count_tokens(s) ==
    Cardinality({i \in 1..Len(s) :
        /\ s[i] \notin Whitespace
        /\ \/ i = 1
           \/ s[i - 1] \in Whitespace
           \/ (s[i] = DOT) # (s[i - 1] = DOT)})

\* The falsy test of line 56: None, the empty string, or whitespace only.
IsBlank(t) == t = NoneText \/ Len(t) = 0 \/ Len(Strip(t)) = 0

\* Lines 68-74: the loop's view of one piece of the split: stripped, and the
\* period put back; the empty sequence when the piece is skipped.
Sentence(piece) ==
    LET s == Strip(piece)
    IN  IF Len(s) = 0 THEN <<>>
        ELSE IF EndsWithDot(s) THEN s ELSE s \o <<DOT>>

\* Lines 61, 67-74: the sentences the loop works on, in input order.
RECURSIVE SentencesOf(_)
SentencesOf(pieces) ==
    IF Len(pieces) = 0 THEN <<>>
    ELSE LET sentence == Sentence(Head(pieces))
         IN  (IF Len(sentence) = 0 THEN <<>> ELSE <<sentence>>)
                 \o SentencesOf(Tail(pieces))

Sentences(t) == SentencesOf(SplitDotSpace(ReplaceNewlines(t)))

MakeChunk(current_chunk, current_token_count, metadata) ==
    [text |-> JoinSpace(current_chunk),
     token_count |-> current_token_count,
     metadata |-> metadata]

\* Lines 87-90: the running chunk after an overflow.
SeedWithNoOverlap(current_chunk, sentence) == <<sentence>>

SeedWithOverlap(current_chunk, sentence) ==
    LET overlap_text == JoinSpace(LastTwo(current_chunk))
    IN  IF Len(overlap_text) > 0 THEN <<overlap_text, sentence>> ELSE <<sentence>>

\* Lines 67-93: one iteration of the loop over the pieces of the split.
\* st is [chunks, current_chunk, current_token_count].
LoopBody(st, piece, size, metadata) ==
    LET sentence == Sentence(piece)
        sentence_tokens == count_tokens(sentence)
    IN  IF Len(sentence) = 0 THEN st
        ELSE IF st.current_token_count + sentence_tokens > size
                /\ Len(st.current_chunk) > 0
        THEN LET seeded == SeedWithOverlap(st.current_chunk, sentence)
             IN  [chunks |-> Append(st.chunks,
                        MakeChunk(st.current_chunk, st.current_token_count, metadata)),
                  current_chunk |-> seeded,
                  current_token_count |-> count_tokens(JoinSpace(seeded))]
        ELSE [chunks |-> st.chunks,
              current_chunk |-> Append(st.current_chunk, sentence),
              current_token_count |-> st.current_token_count + sentence_tokens]

RECURSIVE Loop(_, _, _, _)
Loop(st, pieces, size, metadata) ==
    IF Len(pieces) = 0 THEN st
    ELSE Loop(LoopBody(st, Head(pieces), size, metadata), Tail(pieces), size, metadata)

\* Lines 95-102: the last chunk.
DropLast(st, metadata) == st.chunks

FlushLast(st, metadata) ==
    IF Len(st.current_chunk) > 0
    THEN Append(st.chunks, MakeChunk(st.current_chunk, st.current_token_count, metadata))
    ELSE st.chunks

\* Lines 56-58: the guard on the text.
GuardEmptyStringOnly(t) == Len(t) = 0

EmptyTextGuard(t) == IsBlank(t)

\* DocumentProcessor.chunk_text(text, metadata) with self.chunk_size = size;
\* metadata is the mapping after `metadata or {}`.
chunk_text(t, metadata, size) ==
    IF EmptyTextGuard(t) THEN <<>>
    ELSE FlushLast(
            Loop([chunks |-> <<>>, current_chunk |-> <<>>, current_token_count |-> 0],
                 SplitDotSpace(ReplaceNewlines(t)), size, metadata),
            metadata)

---------------------------------------------------------------------------
(* Python values. *)

\* An optional argument: None, or a value.
None == [given |-> FALSE]
Some(v) == [given |-> TRUE, val |-> v]

\* The truth value Python gives an optional list, mapping or integer.
TruthyList(o) == o.given /\ Len(o.val) > 0
TruthyMap(o) == o.given /\ DOMAIN o.val # {}
TruthyInt(o) == o.given /\ o.val # 0

\* What a call did: it returned a value, or raised.  w is the world after it.
Return(w, v) == [w |-> w, raised |-> FALSE, error |-> "", value |-> v]
Raise(w, e) == [w |-> w, raised |-> TRUE, error |-> e, value |-> <<>>]

\* The world outside the objects: the store's collections, the number of
\* uuids issued so far, and the requests made to the store and the providers.
Log(w, request) == [w EXCEPT !.requests = Append(@, request)]

---------------------------------------------------------------------------
(* Settings (shared/config/settings.py). *)

QDRANT_COLLECTION_NAME == "capstone_docs"
TOP_K_RESULTS == 5
DefaultVectorSize == 1536

---------------------------------------------------------------------------
(* The embedding provider and the vector store: external services, modelled *)
(* by their interface.                                                      *)

CountOf(s, set) == Cardinality({i \in 1..Len(s) : s[i] \in set})

\* The provider's vector for a text: deterministic, of the model's dimension.
\* Two texts get vectors of the same direction only when they have as many
\* letters and as many periods as each other.
Embed(t) ==
    [dim |-> DefaultVectorSize, v |-> <<CountOf(t, Letters), CountOf(t, {DOT}), 1>>]

Dot(a, b) == a[1] * b[1] + a[2] * b[2] + a[3] * b[3]

\* Cosine similarity of two non-negative vectors, as its square in thousandths:
\* higher is more similar.
Cosine(a, b) ==
    IF Dot(a, a) = 0 \/ Dot(b, b) = 0 THEN 0
    ELSE (1000 * Dot(a, b) * Dot(a, b)) \div (Dot(a, a) * Dot(b, b))

\* client.get_collections()
Q_get_collections(w) ==
    Return(Log(w, [svc |-> "get_collections"]), DOMAIN w.collections)

\* client.create_collection(name, VectorParams(size, distance)): the store
\* refuses to create a collection that exists.
Q_create_collection(w, name, size, distance) ==
    LET exists == name \in DOMAIN w.collections
        w1 == Log(w, [svc |-> "create_collection", name |-> name, size |-> size,
                      distance |-> distance, ok |-> ~exists])
    IN  IF exists
        THEN Raise(w1, "CollectionExists")
        ELSE Return([w1 EXCEPT !.collections =
                        [n \in DOMAIN w.collections \cup {name} |->
                            IF n = name
                            THEN [size |-> size, distance |-> distance, points |-> <<>>]
                            ELSE w.collections[n]]],
                    TRUE)

\* One point written: a point of the same id is replaced, any other is added.
UpsertOne(points, p) ==
    IF \E i \in 1..Len(points) : points[i].id = p.id
    THEN [i \in 1..Len(points) |-> IF points[i].id = p.id THEN p ELSE points[i]]
    ELSE Append(points, p)

RECURSIVE UpsertAll(_, _)
UpsertAll(points, new) ==
    IF Len(new) = 0 THEN points
    ELSE UpsertAll(UpsertOne(points, Head(new)), Tail(new))

\* client.upsert(collection_name, points)
Q_upsert(w, name, points) ==
    LET request == [svc |-> "upsert", name |-> name, points |-> points]
    IN  IF name \notin DOMAIN w.collections
        THEN Raise(Log(w, request @@ [ok |-> FALSE]), "CollectionNotFound")
        ELSE IF \E i \in 1..Len(points) :
                    points[i].vector.dim # w.collections[name].size
        THEN Raise(Log(w, request @@ [ok |-> FALSE]), "DimensionMismatch")
        ELSE Return([Log(w, request @@ [ok |-> TRUE])
                        EXCEPT !.collections[name].points = UpsertAll(@, points)],
                    TRUE)

\* A filter that one matching condition satisfies.
MatchesAny(payload, must) ==
    \E key \in DOMAIN must :
        /\ key \in DOMAIN payload.metadata
        /\ payload.metadata[key] = must[key]

\* A Filter(must = [FieldCondition("metadata.<key>", MatchValue(value))...]).
Matches(payload, must) ==
    \A key \in DOMAIN must :
        /\ key \in DOMAIN payload.metadata
        /\ payload.metadata[key] = must[key]

\* The hits in ranking order: by score, highest first; equal scores in the
\* order of insertion.
RECURSIVE Ranked(_)
Ranked(hits) ==
    IF Len(hits) = 0 THEN <<>>
    ELSE LET best == CHOOSE i \in 1..Len(hits) :
                        /\ \A j \in 1..Len(hits) : hits[j].score <= hits[i].score
                        /\ \A j \in 1..(i - 1) : hits[j].score < hits[i].score
         IN  <<hits[best]>> \o
                Ranked(SubSeq(hits, 1, best - 1) \o SubSeq(hits, best + 1, Len(hits)))

FirstN(s, n) == IF Len(s) <= n THEN s ELSE SubSeq(s, 1, n)

\* client.search(collection_name, query_vector, limit, query_filter); the
\* request is logged with the hits the store answered.
Q_search(w, name, vector, limit, query_filter) ==
    LET request == [svc |-> "search", name |-> name, vector |-> vector,
                    limit |-> limit, query_filter |-> query_filter]
    IN  IF name \notin DOMAIN w.collections
        THEN Raise(Log(w, request @@ [ok |-> FALSE, response |-> <<>>]),
                   "CollectionNotFound")
        ELSE IF vector.dim # w.collections[name].size
        THEN Raise(Log(w, request @@ [ok |-> FALSE, response |-> <<>>]),
                   "DimensionMismatch")
        ELSE LET points == w.collections[name].points
                 kept == SelectSeq(points,
                            LAMBDA p : ~query_filter.given
                                        \/ Matches(p.payload, query_filter.val))
                 hits == [i \in 1..Len(kept) |->
                            [payload |-> kept[i].payload,
                             score |-> Cosine(vector.v, kept[i].vector.v)]]
                 response == FirstN(Ranked(hits), limit)
             IN  Return(Log(w, request @@ [ok |-> TRUE, response |-> response]),
                        response)

---------------------------------------------------------------------------
(* VectorStore (rag_pipeline/vector_store.py) *)

\* Lines 48-69.  The check for an existing collection, then the creation.
CreateWithoutCheck(w, vector_size) ==
    LET listed == Q_get_collections(w)
    IN  Q_create_collection(listed.w, QDRANT_COLLECTION_NAME, vector_size, "Cosine")

create_collection(w, vector_size) ==
    LET listed == Q_get_collections(w)
        exists == QDRANT_COLLECTION_NAME \in listed.value
    IN  IF exists THEN Return(listed.w, <<>>)
        ELSE LET made == Q_create_collection(listed.w, QDRANT_COLLECTION_NAME,
                                             vector_size, "Cosine")
             IN  IF made.raised THEN made ELSE Return(made.w, <<>>)

\* The points with an id that is the position in the call, not a fresh uuid.
BuildPointsIdByPosition(w, texts, embeddings, metadata) ==
    [i \in 1..Len(texts) |->
        [id |-> i,
         vector |-> embeddings[i],
         payload |-> [text |-> texts[i],
                      metadata |-> IF TruthyList(metadata) THEN metadata.val[i]
                                   ELSE EmptyMap]]]

\* The points all built with the first embedding of the list.
BuildPointsFirstVector(w, texts, embeddings, metadata) ==
    [i \in 1..Len(texts) |->
        [id |-> w.issued + i,
         vector |-> embeddings[1],
         payload |-> [text |-> texts[i],
                      metadata |-> IF TruthyList(metadata) THEN metadata.val[i]
                                   ELSE EmptyMap]]]

\* Lines 88-103: one point per text, each under a fresh uuid.
BuildPoints(w, texts, embeddings, metadata) ==
    [i \in 1..Len(texts) |->
        [id |-> w.issued + i,
         vector |-> embeddings[i],
         payload |-> [text |-> texts[i],
                      metadata |-> IF TruthyList(metadata) THEN metadata.val[i]
                                   ELSE EmptyMap]]]

\* add_documents writing the points it can pair before it compares the lengths.
AddDocumentsChecksAfterWrite(w, texts, embeddings, metadata) ==
    LET n == IF Len(texts) <= Len(embeddings) THEN Len(texts) ELSE Len(embeddings)
        m == IF TruthyList(metadata) /\ Len(metadata.val) < n
             THEN Len(metadata.val) ELSE n
        paired == SubSeq(texts, 1, m)
        points == BuildPoints(w, paired, embeddings, metadata)
        w1 == [w EXCEPT !.issued = @ + m]
        done == Q_upsert(w1, QDRANT_COLLECTION_NAME, points)
    IN  IF done.raised THEN done
        ELSE IF Len(texts) # Len(embeddings) THEN Raise(done.w, "ValueError")
        ELSE IF TruthyList(metadata) /\ Len(metadata.val) # Len(texts)
        THEN Raise(done.w, "ValueError")
        ELSE Return(done.w, <<>>)

\* add_documents(texts, embeddings, metadata)
add_documents(w, texts, embeddings, metadata) ==
    IF Len(texts) # Len(embeddings)
    THEN Raise(w, "ValueError")
    ELSE IF TruthyList(metadata) /\ Len(metadata.val) # Len(texts)
    THEN Raise(w, "ValueError")
    ELSE LET points == BuildPoints(w, texts, embeddings, metadata)
             w1 == [w EXCEPT !.issued = @ + Len(texts)]
             done == Q_upsert(w1, QDRANT_COLLECTION_NAME, points)
         IN  IF done.raised THEN done ELSE Return(done.w, <<>>)

\* Lines 153-160: the hits as {text, score, metadata}.
Formatted(hits) ==
    [i \in 1..Len(hits) |->
        [text |-> hits[i].payload.text,
         score |-> hits[i].score,
         metadata |-> hits[i].payload.metadata]]

\* search(query_embedding, top_k, metadata_filter)
search(w, query_embedding, top_k, metadata_filter) ==
    LET limit == IF TruthyInt(top_k) THEN top_k.val ELSE TOP_K_RESULTS
        query_filter == IF TruthyMap(metadata_filter) THEN Some(metadata_filter.val)
                        ELSE None
        found == Q_search(w, QDRANT_COLLECTION_NAME, query_embedding, limit, query_filter)
    IN  IF found.raised THEN found ELSE Return(found.w, Formatted(found.value))

\* client.get_collection(name): the collection's counts and status.
Q_get_collection(w, name) ==
    LET request == [svc |-> "get_collection", name |-> name]
    IN  IF name \notin DOMAIN w.collections
        THEN Raise(Log(w, request @@ [ok |-> FALSE]), "CollectionNotFound")
        ELSE LET n == Len(w.collections[name].points)
             IN  Return(Log(w, request @@ [ok |-> TRUE]),
                        [vectors_count |-> n, points_count |-> n, status |-> "green"])

\* get_collection_info with the handler of lines 184-186 re-raising, as the
\* handlers of the other methods do.
InfoReraises(w) ==
    LET info == Q_get_collection(w, QDRANT_COLLECTION_NAME)
    IN  IF info.raised THEN info
        ELSE Return(info.w, [name |-> QDRANT_COLLECTION_NAME,
                             vectors_count |-> info.value.vectors_count,
                             points_count |-> info.value.points_count,
                             status |-> info.value.status])

\* get_collection_info(): the store's failure becomes the empty mapping.
get_collection_info(w) ==
    LET info == Q_get_collection(w, QDRANT_COLLECTION_NAME)
    IN  IF info.raised THEN Return(info.w, EmptyMap)
        ELSE Return(info.w, [name |-> QDRANT_COLLECTION_NAME,
                             vectors_count |-> info.value.vectors_count,
                             points_count |-> info.value.points_count,
                             status |-> info.value.status])

---------------------------------------------------------------------------
(* EmbeddingGenerator (rag_pipeline/embeddings.py) *)

\* generate_embedding with the test of line 37 cut to `not text`.
EmbeddingRejectsEmptyOnly(w, t, ok) ==
    IF t = NoneText \/ Len(t) = 0 THEN Raise(w, "ValueError")
    ELSE LET w1 == Log(w, [svc |-> "embeddings", batch |-> FALSE, input |-> t, ok |-> ok])
         IN  IF ok THEN Return(w1, Embed(t)) ELSE Raise(w1, "EmbeddingProviderError")

\* generate_embedding(text); ok: whether the provider answers.
generate_embedding(w, t, ok) ==
    IF IsBlank(t) THEN Raise(w, "ValueError")
    ELSE LET w1 == Log(w, [svc |-> "embeddings", batch |-> FALSE, input |-> t, ok |-> ok])
         IN  IF ok THEN Return(w1, Embed(t)) ELSE Raise(w1, "EmbeddingProviderError")

\* One request per text in place of the one request of lines 76-79.
RECURSIVE EmbedEach(_, _, _)
EmbedEach(w, texts, ok) ==
    IF Len(texts) = 0 THEN Return(w, <<>>)
    ELSE LET one == generate_embedding(w, Head(texts), ok)
         IN  IF one.raised THEN one
             ELSE LET rest == EmbedEach(one.w, Tail(texts), ok)
                  IN  IF rest.raised THEN rest
                      ELSE Return(rest.w, <<one.value>> \o rest.value)

BatchOneRequestPerText(w, texts, ok) ==
    IF Len(texts) = 0 THEN Return(w, <<>>)
    ELSE LET kept == SelectSeq(texts, LAMBDA t : ~IsBlank(t))
         IN  IF Len(kept) = 0 THEN Raise(w, "ValueError")
             ELSE EmbedEach(w, kept, ok)

\* generate_embeddings_batch without the test of lines 70-71.
BatchWithoutEmptyCheck(w, texts, ok) ==
    IF Len(texts) = 0 THEN Return(w, <<>>)
    ELSE LET kept == SelectSeq(texts, LAMBDA t : ~IsBlank(t))
             w1 == Log(w, [svc |-> "embeddings", batch |-> TRUE,
                           input |-> kept, ok |-> ok])
         IN  IF ok THEN Return(w1, [i \in 1..Len(kept) |-> Embed(kept[i])])
             ELSE Raise(w1, "EmbeddingProviderError")

\* generate_embeddings_batch(texts); ok: whether the provider answers.
generate_embeddings_batch(w, texts, ok) ==
    IF Len(texts) = 0 THEN Return(w, <<>>)
    ELSE LET kept == SelectSeq(texts, LAMBDA t : ~IsBlank(t))
         IN  IF Len(kept) = 0 THEN Raise(w, "ValueError")
             ELSE LET w1 == Log(w, [svc |-> "embeddings", batch |-> TRUE,
                                    input |-> kept, ok |-> ok])
                  IN  IF ok THEN Return(w1, [i \in 1..Len(kept) |-> Embed(kept[i])])
                      ELSE Raise(w1, "EmbeddingProviderError")

---------------------------------------------------------------------------
(* The files on disk that the pipeline is pointed at. *)

Text_aa == <<"a", SP, "a">>

\* Each path: whether it exists, Path.suffix, Path.name, whether open() and
\* read() succeed, and the content read.
Files ==
    ("notes.txt" :> [exists |-> TRUE, suffix |-> ".txt", name |-> "notes.txt",
                     readable |-> TRUE, content |-> Text_aa])
    @@ ("missing.txt" :> [exists |-> FALSE, suffix |-> ".txt", name |-> "missing.txt",
                          readable |-> FALSE, content |-> <<>>])
    @@ ("report.pdf" :> [exists |-> TRUE, suffix |-> ".pdf", name |-> "report.pdf",
                         readable |-> TRUE, content |-> Text_aa])
    @@ ("locked.txt" :> [exists |-> TRUE, suffix |-> ".txt", name |-> "locked.txt",
                         readable |-> FALSE, content |-> <<>>])

\* DocumentProcessor.process_file(file_path) with self.chunk_size = size
process_file(file_path, size) ==
    LET f == Files[file_path]
    IN  IF ~f.exists THEN Raise(<<>>, "FileNotFoundError")
        ELSE IF f.suffix # ".txt" THEN Raise(<<>>, "ValueError")
        ELSE IF ~f.readable THEN Raise(<<>>, "OSError")
        ELSE Return(<<>>,
                chunk_text(f.content,
                           [source |-> file_path, filename |-> f.name,
                            file_type |-> f.suffix],
                           size))

---------------------------------------------------------------------------
(* RAGRetriever (rag_pipeline/retriever.py) *)

NoInfoAnswer == "I couldn't find any relevant information to answer your question."
DefaultSystemPrompt == "You are a helpful AI assistant. ..."
LLMAnswer == "answer"

\* The loop over the files leaving at the first file that fails.
RECURSIVE FileLoopStopsAtFailure(_, _)
FileLoopStopsAtFailure(file_paths, size) ==
    IF Len(file_paths) = 0 THEN <<>>
    ELSE LET processed == process_file(Head(file_paths), size)
         IN  IF processed.raised THEN <<>>
             ELSE processed.value \o FileLoopStopsAtFailure(Tail(file_paths), size)

\* Lines 43-50: the chunks of the files, a failing file skipped.
RECURSIVE FileLoop(_, _)
FileLoop(file_paths, size) ==
    IF Len(file_paths) = 0 THEN <<>>
    ELSE LET processed == process_file(Head(file_paths), size)
         IN  (IF processed.raised THEN <<>> ELSE processed.value)
                \o FileLoop(Tail(file_paths), size)

\* The loop over the raw texts giving every text the first metadata entry.
RECURSIVE TextLoopFirstMetadata(_, _, _, _)
TextLoopFirstMetadata(texts, metadata, i, size) ==
    IF i > Len(texts) THEN <<>>
    ELSE LET meta == IF TruthyList(metadata) THEN metadata.val[1] ELSE EmptyMap
         IN  chunk_text(texts[i], meta, size)
                \o TextLoopFirstMetadata(texts, metadata, i + 1, size)

\* Lines 53-57: the chunks of the raw texts from index i on, texts[i] with
\* metadata[i] when there is one.
RECURSIVE TextLoop(_, _, _, _)
TextLoop(texts, metadata, i, size) ==
    IF i > Len(texts) THEN <<>>
    ELSE LET meta == IF TruthyList(metadata) /\ i <= Len(metadata.val)
                     THEN metadata.val[i] ELSE EmptyMap
         IN  chunk_text(texts[i], meta, size) \o TextLoop(texts, metadata, i + 1, size)

\* Lines 40-57: all_chunks.
TextsThenFiles(file_paths, texts, metadata, size) ==
    (IF TruthyList(texts) THEN TextLoop(texts.val, metadata, 1, size) ELSE <<>>)
        \o (IF TruthyList(file_paths) THEN FileLoop(file_paths.val, size) ELSE <<>>)

CollectChunks(file_paths, texts, metadata, size) ==
    (IF TruthyList(file_paths) THEN FileLoop(file_paths.val, size) ELSE <<>>)
        \o (IF TruthyList(texts) THEN TextLoop(texts.val, metadata, 1, size) ELSE <<>>)

\* ingest_documents without the return of lines 59-61.
IngestWithoutEmptyCheck(w, file_paths, texts, metadata, size, embOK) ==
    LET all_chunks == CollectChunks(file_paths, texts, metadata, size)
        chunk_texts == [i \in 1..Len(all_chunks) |-> all_chunks[i].text]
        chunk_metadata == [i \in 1..Len(all_chunks) |-> all_chunks[i].metadata]
        embedded == generate_embeddings_batch(w, chunk_texts, embOK)
    IN  IF embedded.raised THEN embedded
        ELSE add_documents(embedded.w, chunk_texts, embedded.value, Some(chunk_metadata))

\* ingest_documents pairing the texts with the embeddings from the other end.
Reverse(seq) == [i \in 1..Len(seq) |-> seq[Len(seq) + 1 - i]]

IngestEmbeddingsReversed(w, file_paths, texts, metadata, size, embOK) ==
    LET all_chunks == CollectChunks(file_paths, texts, metadata, size)
        chunk_texts == [i \in 1..Len(all_chunks) |-> all_chunks[i].text]
        chunk_metadata == [i \in 1..Len(all_chunks) |-> all_chunks[i].metadata]
    IN  IF Len(all_chunks) = 0 THEN Return(w, <<>>)
        ELSE LET embedded == generate_embeddings_batch(w, chunk_texts, embOK)
             IN  IF embedded.raised THEN embedded
                 ELSE add_documents(embedded.w, chunk_texts, Reverse(embedded.value),
                                    Some(chunk_metadata))

\* ingest_documents with a create_collection call of its own before its work.
IngestChecksCollection(w, file_paths, texts, metadata, size, embOK) ==
    LET all_chunks == CollectChunks(file_paths, texts, metadata, size)
        chunk_texts == [i \in 1..Len(all_chunks) |-> all_chunks[i].text]
        chunk_metadata == [i \in 1..Len(all_chunks) |-> all_chunks[i].metadata]
        checked == create_collection(w, DefaultVectorSize)
    IN  IF checked.raised THEN checked
        ELSE IF Len(all_chunks) = 0 THEN Return(checked.w, <<>>)
        ELSE LET embedded == generate_embeddings_batch(checked.w, chunk_texts, embOK)
             IN  IF embedded.raised THEN embedded
                 ELSE add_documents(embedded.w, chunk_texts, embedded.value,
                                    Some(chunk_metadata))

\* ingest_documents(file_paths, texts, metadata); embOK: whether the embedding
\* provider answers.
ingest_documents(w, file_paths, texts, metadata, size, embOK) ==
    LET all_chunks == CollectChunks(file_paths, texts, metadata, size)
        chunk_texts == [i \in 1..Len(all_chunks) |-> all_chunks[i].text]
        chunk_metadata == [i \in 1..Len(all_chunks) |-> all_chunks[i].metadata]
    IN  IF Len(all_chunks) = 0 THEN Return(w, <<>>)
        ELSE LET embedded == generate_embeddings_batch(w, chunk_texts, embOK)
             IN  IF embedded.raised THEN embedded
                 ELSE add_documents(embedded.w, chunk_texts, embedded.value,
                                    Some(chunk_metadata))

\* retrieve that does not hand the caller's filter on to the search.
RetrieveDropsFilter(w, query, top_k, metadata_filter, embOK) ==
    LET k == IF TruthyInt(top_k) THEN top_k.val ELSE TOP_K_RESULTS
        embedded == generate_embedding(w, query, embOK)
    IN  IF embedded.raised THEN embedded
        ELSE search(embedded.w, embedded.value, Some(k), None)

\* retrieve(query, top_k, metadata_filter)
retrieve(w, query, top_k, metadata_filter, embOK) ==
    LET k == IF TruthyInt(top_k) THEN top_k.val ELSE TOP_K_RESULTS
        embedded == generate_embedding(w, query, embOK)
    IN  IF embedded.raised THEN embedded
        ELSE search(embedded.w, embedded.value, Some(k), metadata_filter)

\* The format {score:.3f} of a score held in thousandths: the digits before
\* and after the decimal point.
Format3f(score) == <<score \div 1000, score % 1000>>

\* The user prompt with the documents numbered from 0.
UserPromptZeroBased(query, context_docs) ==
    <<[part |-> "Context:"]>>
    \o [i \in 1..Len(context_docs) |->
            [part |-> "Document", ordinal |-> i - 1,
             score |-> Format3f(context_docs[i].score),
             text |-> context_docs[i].text]]
    \o <<[part |-> "Question:", text |-> query],
         [part |-> "Please provide a detailed answer based on the context above."]>>

\* Lines 119-136: the user prompt, part after part: the heading, the
\* documents in the order given, each under its ordinal and score, the
\* question, the closing request.
UserPrompt(query, context_docs) ==
    <<[part |-> "Context:"]>>
    \o [i \in 1..Len(context_docs) |->
            [part |-> "Document", ordinal |-> i,
             score |-> Format3f(context_docs[i].score),
             text |-> context_docs[i].text]]
    \o <<[part |-> "Question:", text |-> query],
         [part |-> "Please provide a detailed answer based on the context above."]>>

\* generate_response that asks the provider a second time when it fails.
GenerateRetriesOnce(w, query, context_docs, system_prompt, genOK) ==
    LET system == IF system_prompt.given /\ system_prompt.val # ""
                  THEN system_prompt.val ELSE DefaultSystemPrompt
        request == [svc |-> "chat", system |-> system,
                    user |-> UserPrompt(query, context_docs), stream |-> FALSE,
                    ok |-> genOK]
    IN  IF genOK THEN Return(Log(w, request), LLMAnswer)
        ELSE Raise(Log(Log(w, request), request), "GenerationProviderError")

\* generate_response(query, context_docs, system_prompt); genOK: whether the
\* generation provider answers.
generate_response(w, query, context_docs, system_prompt, genOK) ==
    LET system == IF system_prompt.given /\ system_prompt.val # ""
                  THEN system_prompt.val ELSE DefaultSystemPrompt
        w1 == Log(w, [svc |-> "chat", system |-> system,
                      user |-> UserPrompt(query, context_docs), stream |-> FALSE,
                      ok |-> genOK])
    IN  IF genOK THEN Return(w1, LLMAnswer) ELSE Raise(w1, "GenerationProviderError")

\* Lines 178-183 and 188-193: the two mappings query returns.
EmptyAnswer(question) ==
    [answer |-> NoInfoAnswer, sources |-> <<>>, query |-> question]

FullAnswer(answer, retrieved_docs, question) ==
    [answer |-> answer, sources |-> retrieved_docs, query |-> question,
     num_sources |-> Len(retrieved_docs)]

\* query without the test of line 178.
QueryAlwaysGenerates(w, question, top_k, metadata_filter, embOK, genOK) ==
    LET retrieved == retrieve(w, question, top_k, metadata_filter, embOK)
    IN  IF retrieved.raised THEN retrieved
        ELSE LET generated == generate_response(retrieved.w, question, retrieved.value,
                                                None, genOK)
             IN  IF generated.raised THEN generated
                 ELSE Return(generated.w,
                             FullAnswer(generated.value, retrieved.value, question))

\* query(question, top_k, metadata_filter)
query(w, question, top_k, metadata_filter, embOK, genOK) ==
    LET retrieved == retrieve(w, question, top_k, metadata_filter, embOK)
    IN  IF retrieved.raised THEN retrieved
        ELSE IF Len(retrieved.value) = 0 THEN Return(retrieved.w, EmptyAnswer(question))
        ELSE LET generated == generate_response(retrieved.w, question, retrieved.value,
                                                None, genOK)
             IN  IF generated.raised THEN generated
                 ELSE Return(generated.w,
                             FullAnswer(generated.value, retrieved.value, question))

\* get_stats()
get_stats(w) == get_collection_info(w)

---------------------------------------------------------------------------
(* The chunker alone: one call of chunk_text on any text, any chunk size. *)

Init ==
    /\ text = <<>>
    /\ chunk_size = PipelineChunkSize
    /\ chunks = <<>>
    /\ pc = "idle"
    /\ phase = "Uninitialized"
    /\ collections = EmptyMap
    /\ issued = 0
    /\ requests = <<>>
    /\ last = [call |-> [op |-> "none"], raised |-> FALSE, error |-> "", value |-> <<>>]
    /\ conversation = [constructed |-> FALSE, max_history |-> 0, history |-> <<>>,
                       added |-> 0]
    /\ clients = [c \in Clients |-> [pc |-> "idle", vector_size |-> DefaultVectorSize]]

\* processor.chunk_text(text) on a processor of any chunk size
ChunkText ==
    /\ pc = "idle"
    /\ pc' = "done"
    /\ UNCHANGED pipeline_vars
    /\ UNCHANGED <<conversation, clients>>
    /\ \E t \in AllTexts \cup {NoneText}, size \in 1..MaxChunkSize :
            /\ text' = t
            /\ chunk_size' = size
            /\ chunks' = chunk_text(t, EmptyMap, size)

NextChunker == ChunkText

SpecChunker == Init /\ [][NextChunker]_vars

---------------------------------------------------------------------------
(* The chunker on longer texts: one call of chunk_text on a text of up to   *)
(* MaxSentences sentences, written with a period and a space between them. *)

SentencePool == {<<"a">>, <<"a", SP, "a">>, <<DOT, DOT>>}

\* The sentences as a writer puts them in a text: '. ' between two of them.
RECURSIVE JoinDotSpace(_)
JoinDotSpace(parts) ==
    IF Len(parts) = 0 THEN <<>>
    ELSE IF Len(parts) = 1 THEN parts[1]
    ELSE parts[1] \o <<DOT, SP>> \o JoinDotSpace(Tail(parts))

\* processor.chunk_text(text) on a text of several sentences
ChunkSentences ==
    /\ pc = "idle"
    /\ pc' = "done"
    /\ UNCHANGED pipeline_vars
    /\ UNCHANGED <<conversation, clients>>
    /\ \E n \in 1..MaxSentences, size \in 1..MaxChunkSize :
        \E written \in [1..n -> SentencePool] :
            /\ text' = JoinDotSpace(written)
            /\ chunk_size' = size
            /\ chunks' = chunk_text(JoinDotSpace(written), EmptyMap, size)

NextSentences == ChunkSentences

SpecSentences == Init /\ [][NextSentences]_vars

---------------------------------------------------------------------------
(* The pipeline: a RAGRetriever is constructed, then ingests and answers.  *)

\* The inputs the calls are tried on.
Text_a == <<"a">>
Text_a_a == <<"a", DOT, SP, "a">>
Text_blank == <<SP, NL>>

\* Texts as the chunker returns them: the period put back.
Chunk_a == <<"a", DOT>>
Chunk_aa == <<"a", SP, "a", DOT>>
Chunk_a_a == <<"a", DOT, SP, "a", DOT>>

Meta_ai == [topic |-> "ai"]
Meta_ml == [topic |-> "ml"]

FilePathLists ==
    {None, Some(<<>>), Some(<<"notes.txt">>), Some(<<"missing.txt">>),
     Some(<<"report.pdf", "notes.txt">>), Some(<<"notes.txt", "locked.txt">>),
     Some(<<"missing.txt", "report.pdf">>)}

TextLists ==
    {None, Some(<<>>), Some(<< <<>> >>), Some(<<Text_blank, NoneText>>),
     Some(<<Text_a>>), Some(<<Text_a_a>>), Some(<< <<>>, Text_a>>),
     Some(<<Text_a_a, Text_aa>>)}

MetadataLists == {None, Some(<<>>), Some(<<Meta_ai>>), Some(<<Meta_ai, Meta_ml>>)}

Questions == {<<>>, Text_blank, Text_a, Text_a_a, Chunk_a, Chunk_aa, Chunk_a_a}
TopKs == {None, Some(0), Some(1), Some(2)}
Filters ==
    {None, Some(EmptyMap), Some(Meta_ai), Some([filename |-> "notes.txt"]),
     Some([filename |-> "notes.txt", file_type |-> ".txt"]),
     Some([filename |-> "notes.txt", topic |-> "ai"])}

\* Context documents as a caller of generate_response may hand them over.
Doc_a == [text |-> Chunk_a, score |-> 1000, metadata |-> EmptyMap]
Doc_aa == [text |-> Chunk_aa, score |-> 857, metadata |-> Meta_ai]

ContextLists == {<<>>, <<Doc_a>>, <<Doc_aa, Doc_a>>, <<Doc_a, Doc_aa, Doc_a>>}

SystemPrompts == {None, Some(""), Some("Answer in one sentence.")}

World == [collections |-> collections, issued |-> issued, requests |-> <<>>]

Stored ==
    IF QDRANT_COLLECTION_NAME \in DOMAIN collections
    THEN collections[QDRANT_COLLECTION_NAME].points ELSE <<>>

\* The call ends: the world and the record of the call are what it left.
Commit(call, r) ==
    /\ collections' = r.w.collections
    /\ issued' = r.w.issued
    /\ requests' = r.w.requests
    /\ last' = [call |-> call, raised |-> r.raised, error |-> r.error, value |-> r.value]
    /\ UNCHANGED chunker_vars
    /\ UNCHANGED <<conversation, clients>>

\* The caller has taken the result of the last call: the next call can start.
NoCall == [call |-> [op |-> "none"], raised |-> FALSE, error |-> "", value |-> <<>>]

Idle == last.call.op = "none"

TakeResult ==
    /\ ~Idle
    /\ last' = NoCall
    /\ requests' = <<>>
    /\ UNCHANGED <<phase, collections, issued>>
    /\ UNCHANGED chunker_vars
    /\ UNCHANGED <<conversation, clients>>

\* A constructor that leaves the creation of the collection to later calls.
ConstructWithoutCollection ==
    /\ Idle
    /\ phase = "Uninitialized"
    /\ phase' = "CollectionReady"
    /\ Commit([op |-> "__init__"], Return(World, <<>>))

\* RAGRetriever(): lines 18-28.  The store is the instance's own, in memory.
Construct ==
    /\ Idle
    /\ phase = "Uninitialized"
    /\ phase' = "CollectionReady"
    /\ Commit([op |-> "__init__"], create_collection(World, DefaultVectorSize))

\* rag.ingest_documents(file_paths, texts, metadata)
IngestDocuments(answers) ==
    /\ Idle
    /\ phase = "CollectionReady"
    /\ issued < MaxPoints
    /\ UNCHANGED phase
    /\ \E file_paths \in FilePathLists, texts \in TextLists,
          metadata \in MetadataLists, embOK \in answers :
            Commit([op |-> "ingest_documents", file_paths |-> file_paths,
                    texts |-> texts, metadata |-> metadata],
                   ingest_documents(World, file_paths, texts, metadata, chunk_size, embOK))

\* rag.retrieve(query, top_k, metadata_filter)
Retrieve(answers) ==
    /\ Idle
    /\ phase = "CollectionReady"
    /\ UNCHANGED phase
    /\ \E question \in Questions, top_k \in TopKs, metadata_filter \in Filters,
          embOK \in answers :
            Commit([op |-> "retrieve", query |-> question, top_k |-> top_k,
                    metadata_filter |-> metadata_filter],
                   retrieve(World, question, top_k, metadata_filter, embOK))

\* rag.query(question, top_k, metadata_filter)
Query(answers) ==
    /\ Idle
    /\ phase = "CollectionReady"
    /\ UNCHANGED phase
    /\ \E question \in Questions, top_k \in TopKs, metadata_filter \in Filters,
          embOK \in answers, genOK \in answers :
            Commit([op |-> "query", question |-> question, top_k |-> top_k,
                    metadata_filter |-> metadata_filter],
                   query(World, question, top_k, metadata_filter, embOK, genOK))

\* rag.generate_response(query, context_docs, system_prompt)
GenerateResponse(answers) ==
    /\ Idle
    /\ phase = "CollectionReady"
    /\ UNCHANGED phase
    /\ \E question \in {Text_a, Text_a_a}, context_docs \in ContextLists,
          system_prompt \in SystemPrompts, genOK \in answers :
            Commit([op |-> "generate_response", query |-> question,
                    context_docs |-> context_docs, system_prompt |-> system_prompt],
                   generate_response(World, question, context_docs, system_prompt, genOK))

\* rag.get_stats()
GetStats ==
    /\ Idle
    /\ phase = "CollectionReady"
    /\ UNCHANGED phase
    /\ Commit([op |-> "get_stats"], get_stats(World))

\* The steps of the pipeline, the providers answering as `answers` allows.
NextWith(answers) ==
    \/ Construct
    \/ IngestDocuments(answers)
    \/ Retrieve(answers)
    \/ Query(answers)
    \/ GenerateResponse(answers)
    \/ GetStats
    \/ TakeResult

\* The providers answer every request.
Next == NextWith({TRUE})

Spec == Init /\ [][Next]_vars

\* The providers may fail any request.
NextFaults == NextWith(BOOLEAN)

SpecFaults == Init /\ [][NextFaults]_vars

---------------------------------------------------------------------------
(* The vector store adapter alone: a VectorStore is constructed, then its  *)
(* methods are called in any order.                                        *)

VectorSizes == {DefaultVectorSize, DefaultVectorSize \div 2}

DocumentLists == {<<>>, <<Chunk_a>>, <<Chunk_a, Chunk_aa>>}

EmbeddingLists ==
    {<<>>, <<Embed(Chunk_a)>>, <<Embed(Chunk_a), Embed(Chunk_aa)>>,
     <<[dim |-> DefaultVectorSize \div 2, v |-> <<1, 1, 1>>]>>}

\* store.create_collection(vector_size)
CreateCollection ==
    /\ Idle
    /\ UNCHANGED phase
    /\ \E vector_size \in VectorSizes :
            Commit([op |-> "create_collection", vector_size |-> vector_size],
                   create_collection(World, vector_size))

\* store.add_documents(texts, embeddings, metadata)
AddDocuments ==
    /\ Idle
    /\ issued < MaxPoints
    /\ UNCHANGED phase
    /\ \E texts \in DocumentLists, embeddings \in EmbeddingLists,
          metadata \in MetadataLists :
            Commit([op |-> "add_documents", texts |-> texts, embeddings |-> embeddings,
                    metadata |-> metadata],
                   add_documents(World, texts, embeddings, metadata))

\* store.search(query_embedding, top_k, metadata_filter)
Search ==
    /\ Idle
    /\ UNCHANGED phase
    /\ \E question \in {Text_a, Text_a_a}, top_k \in TopKs, metadata_filter \in Filters :
            Commit([op |-> "search", query_embedding |-> Embed(question),
                    top_k |-> top_k, metadata_filter |-> metadata_filter],
                   search(World, Embed(question), top_k, metadata_filter))

\* store.get_collection_info()
GetCollectionInfo ==
    /\ Idle
    /\ UNCHANGED phase
    /\ Commit([op |-> "get_collection_info"], get_collection_info(World))

NextStore ==
    \/ CreateCollection
    \/ AddDocuments
    \/ Search
    \/ GetCollectionInfo
    \/ TakeResult

SpecStore == Init /\ [][NextStore]_vars

---------------------------------------------------------------------------
(* The embedding gateway alone: an EmbeddingGenerator is constructed, then  *)
(* its two methods are called on any texts, the provider answering or not. *)

EmbedTexts == {<<>>, Text_blank, NoneText, Chunk_a, Chunk_aa}

EmbedBatches == UNION {[1..n -> EmbedTexts] : n \in 0..MaxBatch}

\* embedding_gen.generate_embedding(text)
GenerateEmbedding ==
    /\ Idle
    /\ UNCHANGED phase
    /\ \E t \in EmbedTexts, ok \in BOOLEAN :
            Commit([op |-> "generate_embedding", text |-> t],
                   generate_embedding(World, t, ok))

\* embedding_gen.generate_embeddings_batch(texts)
GenerateEmbeddingsBatch ==
    /\ Idle
    /\ UNCHANGED phase
    /\ \E texts \in EmbedBatches, ok \in BOOLEAN :
            Commit([op |-> "generate_embeddings_batch", texts |-> texts],
                   generate_embeddings_batch(World, texts, ok))

NextEmbed ==
    \/ GenerateEmbedding
    \/ GenerateEmbeddingsBatch
    \/ TakeResult

SpecEmbed == Init /\ [][NextEmbed]_vars

---------------------------------------------------------------------------
(* Properties of the chunker. *)

\* The text of the sentences lo..hi of the input, joined as a chunk joins them.
JoinRange(sents, lo, hi) == JoinSpace(SubSeq(sents, lo, hi))

Blank(t) == t = NoneText \/ \A i \in 1..Len(t) : t[i] \in Whitespace

Chunked == pc = "done" /\ ~Blank(text)

\* A chunk that is one sentence of the input, itself longer than chunk_size.
IsOversizedSentence(c) ==
    \E i \in 1..Len(Sentences(text)) :
        /\ Sentences(text)[i] = c
        /\ count_tokens(c) > chunk_size

\* C1: every chunk returned by chunk_text has at most chunk_size tokens in its
\* text, unless it is exactly one sentence that is itself longer than
\* chunk_size.
C1_ChunkTokenBound ==
    Chunked =>
        \A k \in 1..Len(chunks) :
            \/ count_tokens(chunks[k].text) <= chunk_size
            \/ IsOversizedSentence(chunks[k].text)

\* The chunks k.. are runs lo..hi of consecutive sentences, each starting no
\* later than the sentence after the previous run's end and ending strictly
\* later, the last one ending at the last sentence.
RECURSIVE CoverFrom(_, _, _, _)
CoverFrom(sents, k, prevLo, prevHi) ==
    IF k > Len(chunks) THEN prevHi = Len(sents)
    ELSE \E lo \in prevLo..(prevHi + 1) : \E hi \in (prevHi + 1)..Len(sents) :
            /\ lo <= hi
            /\ chunks[k].text = JoinRange(sents, lo, hi)
            /\ CoverFrom(sents, k + 1, lo, hi)

\* C2: for a non-empty text, the chunks are runs of consecutive sentences that
\* start at the first sentence, leave no gap between one run and the next and
\* end at the last sentence: every sentence is in some chunk, and first
\* occurrences are in input order.
C2_NoSentenceDropped ==
    Chunked => CoverFrom(Sentences(text), 1, 1, 0)

\* C2's case: three sentences, an overflow, and the flush of the last chunk.
C2_Witness ==
    /\ Chunked
    /\ Len(Sentences(text)) >= 3
    /\ Len(chunks) >= 2
    /\ Len(chunks) < Len(Sentences(text))

\* C3: a sentence longer than chunk_size is a chunk of its own, and no chunk
\* holds it together with other sentences.
C3_OversizedSentenceAlone ==
    Chunked =>
        LET sents == Sentences(text)
        IN  \A i \in 1..Len(sents) :
                count_tokens(sents[i]) > chunk_size =>
                    /\ \E k \in 1..Len(chunks) : chunks[k].text = sents[i]
                    /\ \A k \in 1..Len(chunks) :
                        ~ \E lo \in 1..i : \E hi \in i..Len(sents) :
                            /\ lo < hi
                            /\ chunks[k].text = JoinRange(sents, lo, hi)

\* C4: chunk_text returns the empty sequence for a text that is None, empty
\* or whitespace only, and the loop of ingest_documents over the raw texts
\* gets no chunk from such a text.
C4_BlankTextNoChunks ==
    pc = "done" /\ Blank(text) =>
        /\ chunks = <<>>
        /\ TextLoop(<<text>>, None, 1, chunk_size) = <<>>
        /\ TextLoop(<<Text_a, text>>, None, 1, chunk_size)
                = chunk_text(Text_a, EmptyMap, chunk_size)

\* C4's case: a text of whitespace only, with a newline in it.
C4_Witness ==
    /\ pc = "done"
    /\ text # NoneText
    /\ Len(text) >= 2
    /\ Blank(text)
    /\ \E i \in 1..Len(text) : text[i] = NL
    /\ chunks = <<>>

---------------------------------------------------------------------------
(* Properties of the pipeline. *)

\* The positions in the last call's requests that went to a service.
RequestsTo(svc) == {i \in 1..Len(requests) : requests[i].svc = svc}

Called(op) == last.call.op = op

\* C5: in a query call the generation provider is called once, after the
\* search, when the search answered at least one hit, and not at all
\* otherwise; a search that answered nothing ends the call with the fixed
\* answer and no sources.
C5_GenerationIffRetrieved ==
    Called("query") =>
        LET searches == RequestsTo("search")
            chats == RequestsTo("chat")
            hit == \E i \in searches : requests[i].ok /\ Len(requests[i].response) > 0
            miss == \E i \in searches : requests[i].ok /\ Len(requests[i].response) = 0
        IN  /\ Cardinality(chats) = (IF hit THEN 1 ELSE 0)
            /\ \A c \in chats : \E i \in searches : i < c
            /\ miss => /\ ~last.raised
                       /\ last.value.answer = NoInfoAnswer
                       /\ last.value.sources = <<>>

\* C5's case: the collection holds points, the filter matches none of them,
\* and the call ends without a request to the generation provider.
C5_Witness ==
    /\ Called("query")
    /\ Len(Stored) > 0
    /\ last.call.metadata_filter.given
    /\ \E i \in RequestsTo("search") : requests[i].ok /\ requests[i].response = <<>>
    /\ RequestsTo("chat") = {}
    /\ ~last.raised

\* C6: the mapping a query call returns has the keys answer, sources, query
\* and num_sources, query being the question and num_sources the number of
\* sources.
C6_QueryResultKeys ==
    Called("query") /\ ~last.raised =>
        /\ DOMAIN last.value = {"answer", "sources", "query", "num_sources"}
        /\ last.value.query = last.call.question
        /\ last.value.num_sources = Len(last.value.sources)

RECURSIVE Flatten(_)
Flatten(lists) == IF Len(lists) = 0 THEN <<>> ELSE Head(lists) \o Flatten(Tail(lists))

ListOf(o) == IF o.given THEN o.val ELSE <<>>

FileFails(file_path) == process_file(file_path, chunk_size).raised

\* The chunks an ingest call owes: those of the files that can be processed,
\* in the order of file_paths, then those of the raw texts, in order, each
\* text with the metadata at its index.
OwedFileChunks(call) ==
    LET paths == ListOf(call.file_paths)
    IN  Flatten([i \in 1..Len(paths) |->
                    IF FileFails(paths[i]) THEN <<>>
                    ELSE process_file(paths[i], chunk_size).value])

OwedTextChunks(call) ==
    LET texts == ListOf(call.texts)
        metas == ListOf(call.metadata)
    IN  Flatten([i \in 1..Len(texts) |->
                    chunk_text(texts[i],
                               IF i <= Len(metas) THEN metas[i] ELSE EmptyMap,
                               chunk_size)])

OwedChunks(call) == OwedFileChunks(call) \o OwedTextChunks(call)

\* The requests of an ingest call are one batch request to the embedding
\* provider with the texts of `owed`, then one upsert of one point per chunk
\* of `owed`, in order, with its text, its metadata and its vector.
OneBatchThenOneUpsert(owed) ==
    /\ Len(requests) = 2
    /\ requests[1].svc = "embeddings"
    /\ requests[1].batch
    /\ requests[1].input = [i \in 1..Len(owed) |-> owed[i].text]
    /\ requests[2].svc = "upsert"
    /\ Len(requests[2].points) = Len(owed)
    /\ \A i \in 1..Len(owed) :
        /\ requests[2].points[i].payload.text = owed[i].text
        /\ requests[2].points[i].payload.metadata = owed[i].metadata
        /\ requests[2].points[i].vector = Embed(owed[i].text)

\* C7: an ingest call that yields chunks makes one batch embedding request
\* with the texts of all its chunks (files first, then raw texts, in input
\* order), and after it one upsert with exactly those chunks.
C7_OneBatchOneUpsert ==
    Called("ingest_documents") /\ OwedChunks(last.call) # <<>> =>
        OneBatchThenOneUpsert(OwedChunks(last.call))

\* C7's case: chunks of a file and of a raw text that chunks in two.
C7_Witness ==
    /\ Called("ingest_documents")
    /\ Len(OwedFileChunks(last.call)) >= 1
    /\ Len(OwedTextChunks(last.call)) >= 2
    /\ Len(requests) = 2
    /\ Len(Stored) >= 3

\* C8: when a file of an ingest call fails, the call does not raise, the
\* chunks of the other files and of the raw texts are embedded and upserted,
\* and no stored point comes from the failing file.
C8_FailingFileSkipped ==
    Called("ingest_documents") =>
        \A f \in 1..Len(ListOf(last.call.file_paths)) :
            LET path == last.call.file_paths.val[f]
                owed == OwedChunks(last.call)
            IN  FileFails(path) =>
                    /\ ~last.raised
                    /\ IF owed = <<>> THEN requests = <<>>
                       ELSE OneBatchThenOneUpsert(owed)
                    /\ \A i \in 1..Len(Stored) :
                        "source" \in DOMAIN Stored[i].payload.metadata =>
                            Stored[i].payload.metadata.source # path

\* C8's case: the first file fails, the second file and a raw text are stored.
C8_Witness ==
    /\ Called("ingest_documents")
    /\ Len(ListOf(last.call.file_paths)) = 2
    /\ FileFails(last.call.file_paths.val[1])
    /\ OwedFileChunks(last.call) # <<>>
    /\ OwedTextChunks(last.call) # <<>>
    /\ ~last.raised
    /\ Len(Stored) = Len(OwedChunks(last.call))

\* C9: an ingest call whose chunk list is empty makes no request, leaves
\* the collection as it was and returns.
C9_EmptyIngestNoOp ==
    [][Idle /\ last'.call.op = "ingest_documents" /\ OwedChunks(last'.call) = <<>> =>
        /\ requests' = <<>>
        /\ collections' = collections
        /\ issued' = issued
        /\ ~last'.raised]_vars

\* C9's case: every file fails and every text is blank, on a collection that
\* holds points.
C9_Witness ==
    /\ Called("ingest_documents")
    /\ Len(ListOf(last.call.file_paths)) > 0
    /\ Len(ListOf(last.call.texts)) > 0
    /\ OwedChunks(last.call) = <<>>
    /\ requests = <<>>
    /\ Len(Stored) > 0
    /\ ~last.raised

---------------------------------------------------------------------------
(* Properties of the vector store adapter. *)

\* C10: create_collection on a collection that exists makes no create
\* request, does not raise and leaves the collection as it was, whatever
\* vector_size it is given; one collection of the name exists after it.
C10_CreateIdempotent ==
    [][/\ Idle
       /\ last'.call.op = "create_collection"
       /\ QDRANT_COLLECTION_NAME \in DOMAIN collections
       => /\ ~last'.raised
          /\ RequestsTo("create_collection")' = {}
          /\ collections' = collections
          /\ DOMAIN collections' = {QDRANT_COLLECTION_NAME}]_vars

\* C10's case: the second call, with another vector_size, on a collection
\* that holds points.
C10_Witness ==
    /\ Called("create_collection")
    /\ requests = <<[svc |-> "get_collections"]>>
    /\ Len(Stored) > 0
    /\ last.call.vector_size # collections[QDRANT_COLLECTION_NAME].size
    /\ ~last.raised

\* A call of add_documents whose lists differ in length: the embeddings from
\* the texts, or a metadata list that was passed from the texts.
ShapeMismatch(call) ==
    \/ Len(call.texts) # Len(call.embeddings)
    \/ call.metadata.given /\ Len(call.metadata.val) # Len(call.texts)

\* C11: add_documents raises ValueError when the number of embeddings differs
\* from the number of texts and when a metadata list was passed, of any
\* length, zero included, that differs in length from the texts; it writes
\* points only when all the lists passed have the same length.
C11_ShapeMismatchRaises ==
    Called("add_documents") =>
        /\ ShapeMismatch(last.call) => last.raised /\ last.error = "ValueError"
        /\ (\E i \in RequestsTo("upsert") : requests[i].ok) => ~ShapeMismatch(last.call)

\* C12: an add_documents call that returns leaves the points that were in the
\* collection as they were, in place, and adds after them one point per text,
\* in order, each under an id that no point of the collection had and no
\* other point of the call has.
C12_FreshIdsNoOverwrite ==
    [][Idle /\ last'.call.op = "add_documents" /\ ~last'.raised =>
        LET old == Stored
            new == Stored'
            texts == last'.call.texts
        IN  /\ Len(new) = Len(old) + Len(texts)
            /\ SubSeq(new, 1, Len(old)) = old
            /\ \A i \in 1..Len(texts) :
                /\ new[Len(old) + i].payload.text = texts[i]
                /\ \A j \in 1..Len(old) : old[j].id # new[Len(old) + i].id
                /\ \A j \in 1..Len(texts) :
                    j # i => new[Len(old) + j].id # new[Len(old) + i].id]_vars

\* C12's case: the same text added by a second call: two points of equal
\* content under two ids.
C12_Witness ==
    /\ Called("add_documents")
    /\ ~last.raised
    /\ Len(last.call.texts) > 0
    /\ Len(Stored) > Len(last.call.texts)
    /\ \E i, j \in 1..Len(Stored) :
        /\ i < j
        /\ Stored[i].payload = Stored[j].payload
        /\ Stored[i].vector = Stored[j].vector
        /\ Stored[i].id # Stored[j].id

---------------------------------------------------------------------------
(* Properties of retrieval. *)

\* The metadata has every key of the filter, with the filter's value.
FilterHolds(metadata, f) ==
    \A key \in DOMAIN f : key \in DOMAIN metadata /\ metadata[key] = f[key]

\* The stored points whose metadata the filter of the call holds of.
MatchingPoints(f) ==
    {i \in 1..Len(Stored) : FilterHolds(Stored[i].payload.metadata, f)}

\* C13: every result of a retrieve call with a metadata filter is a stored
\* point whose metadata has every key of the filter with the filter's value;
\* when no stored point is such, the call returns the empty list.
C13_FilterIsConjunction ==
    Called("retrieve") /\ last.call.metadata_filter.given =>
        LET f == last.call.metadata_filter.val
        IN  /\ ~last.raised =>
                \A r \in 1..Len(last.value) :
                    /\ FilterHolds(last.value[r].metadata, f)
                    /\ \E i \in MatchingPoints(f) :
                        /\ Stored[i].payload.text = last.value[r].text
                        /\ Stored[i].payload.metadata = last.value[r].metadata
            /\ ~Blank(last.call.query) /\ MatchingPoints(f) = {} =>
                ~last.raised /\ last.value = <<>>

\* C13's case: a filter of two keys, a stored point that matches both and is
\* returned, and a stored point that does not and is left out.
C13_Witness ==
    /\ Called("retrieve")
    /\ ~last.raised
    /\ last.call.metadata_filter.given
    /\ Cardinality(DOMAIN last.call.metadata_filter.val) = 2
    /\ Len(last.value) >= 1
    /\ MatchingPoints(last.call.metadata_filter.val) # {}
    /\ \E i \in 1..Len(Stored) : i \notin MatchingPoints(last.call.metadata_filter.val)
    /\ ~last.call.top_k.given

\* C14: a retrieve call that is given top_k >= 0 returns at most top_k
\* results, and one that is given none at most the default of 5; the results
\* are in the order of the ranking, no score below a later one.
C14_AtMostTopK ==
    Called("retrieve") /\ ~last.raised =>
        LET bound == IF last.call.top_k.given THEN last.call.top_k.val
                     ELSE TOP_K_RESULTS
        IN  /\ Len(last.value) <= bound
            /\ \A i, j \in 1..Len(last.value) :
                    i < j => last.value[i].score >= last.value[j].score

---------------------------------------------------------------------------
(* Properties of the adapter's failure handling. *)

\* The store refused a request of the last call.
StoreFailed ==
    \E i \in 1..Len(requests) :
        /\ requests[i].svc \in {"create_collection", "upsert", "search", "get_collection"}
        /\ ~requests[i].ok

InfoKeys == {"name", "vectors_count", "points_count", "status"}

\* C15: get_collection_info does not raise and does not change the
\* collections; it returns the empty mapping when the store's lookup fails
\* and a mapping of name, vectors_count, points_count and status otherwise.
\* create_collection, add_documents and search raise when the store fails.
C15_OnlyInfoSwallows ==
    [][Idle =>
        /\ last'.call.op = "get_collection_info" =>
            /\ ~last'.raised
            /\ collections' = collections
            /\ IF StoreFailed' THEN last'.value = EmptyMap
               ELSE /\ DOMAIN last'.value = InfoKeys
                    /\ last'.value.name = QDRANT_COLLECTION_NAME
                    /\ last'.value.points_count = Len(Stored)
        /\ last'.call.op \in {"create_collection", "add_documents", "search"} =>
            (StoreFailed' => last'.raised /\ last'.error # "ValueError")]_vars

\* C15's case: the lookup of a collection that does not exist.
C15_Witness ==
    /\ Called("get_collection_info")
    /\ QDRANT_COLLECTION_NAME \notin DOMAIN collections
    /\ StoreFailed
    /\ last.value = EmptyMap
    /\ ~last.raised

\* The query text of the last retrieve or query call.
QueryText == IF Called("retrieve") THEN last.call.query ELSE last.call.question

\* C16: a retrieve or query call whose query text is empty or whitespace only
\* raises ValueError, raised by generate_embedding before any request to the
\* embedding provider: the call makes no request to a provider or the store.
C16_BlankQueryRejected ==
    (Called("retrieve") \/ Called("query")) /\ Blank(QueryText) =>
        /\ last.raised
        /\ last.error = "ValueError"
        /\ requests = <<>>

\* C16's case: a query text of whitespace, on a collection that holds points.
C16_Witness ==
    /\ Called("query")
    /\ Len(QueryText) > 0
    /\ Blank(QueryText)
    /\ Len(Stored) > 0
    /\ last.raised
    /\ requests = <<>>

---------------------------------------------------------------------------
(* Properties of the embedding gateway. *)

\* The texts of a list that are not None, empty or whitespace only, in order.
NonBlank(texts) == SelectSeq(texts, LAMBDA t : ~Blank(t))

EmbeddingRequests == RequestsTo("embeddings")

\* C17 as stated: no blank text is in a request to the provider, and a list
\* in which no text remains after the drop, the empty list included, raises
\* ValueError without a request.
C17_NothingLeftRaises ==
    Called("generate_embeddings_batch") =>
        /\ \A i \in EmbeddingRequests : requests[i].input = NonBlank(last.call.texts)
        /\ Len(NonBlank(last.call.texts)) = 0 =>
            /\ last.raised
            /\ last.error = "ValueError"
            /\ requests = <<>>

\* C17, amended: no blank text is in a request to the provider; a list of at
\* least one text in which no text remains after the drop raises ValueError
\* without a request; the empty list returns the empty list without a request.
C17_NonEmptyNothingLeftRaises ==
    Called("generate_embeddings_batch") =>
        /\ \A i \in EmbeddingRequests : requests[i].input = NonBlank(last.call.texts)
        /\ Len(NonBlank(last.call.texts)) = 0 =>
            /\ requests = <<>>
            /\ IF Len(last.call.texts) = 0
               THEN ~last.raised /\ last.value = <<>>
               ELSE last.raised /\ last.error = "ValueError"

\* C17's case: a list of an empty string, a whitespace string and None.
C17_Witness ==
    /\ Called("generate_embeddings_batch")
    /\ Len(last.call.texts) = 3
    /\ \E i, j, k \in 1..3 :
        /\ last.call.texts[i] = <<>>
        /\ last.call.texts[j] = Text_blank
        /\ last.call.texts[k] = NoneText
    /\ last.raised
    /\ last.error = "ValueError"
    /\ requests = <<>>

---------------------------------------------------------------------------
(* The round trip of a chunk through ingestion and retrieval. *)

\* The stored points whose text is t.
PointsWithText(t) == {i \in 1..Len(Stored) : Stored[i].payload.text = t}

\* The score the store gives a stored point for the query text.
ScoreOf(i, t) == Cosine(Embed(t).v, Stored[i].vector.v)

\* C19: a retrieve call without a filter, for top_k >= 1 or the default,
\* whose query is the text of a stored chunk returns a result of that text
\* first, and no stored chunk has a higher score for the query.
C19_ExactTextRanksFirst ==
    /\ Called("retrieve")
    /\ ~TruthyMap(last.call.metadata_filter)
    /\ last.call.top_k.given => last.call.top_k.val >= 1
    /\ PointsWithText(last.call.query) # {}
    => /\ ~last.raised
       /\ Len(last.value) >= 1
       /\ last.value[1].text = last.call.query
       /\ \A i \in 1..Len(Stored) : ScoreOf(i, last.call.query) <= last.value[1].score

\* C19's case: top_k = 1, chunks of two texts stored in one call, and the
\* query is the text of the one stored later.
C19_Witness ==
    /\ Called("retrieve")
    /\ last.call.top_k = Some(1)
    /\ ~last.call.metadata_filter.given
    /\ Len(Stored) >= 2
    /\ Stored[1].payload.text # last.call.query
    /\ PointsWithText(last.call.query) # {}
    /\ ~last.raised
    /\ Len(last.value) = 1
    /\ last.value[1].text = last.call.query

---------------------------------------------------------------------------
(* The overlap between one chunk and the next. *)

Max(a, b) == IF a >= b THEN a ELSE b

\* The chunks k.. are runs of consecutive sentences, the first from the first
\* sentence, each later one from the last two sentences of the chunk before
\* it (its only sentence when it has one) through at least the sentence after
\* that chunk's end, the last one ending at the last sentence.
RECURSIVE OverlapChain(_, _, _, _)
OverlapChain(sents, k, prevLo, prevHi) ==
    IF k > Len(chunks) THEN prevHi = Len(sents)
    ELSE LET lo == IF k = 1 THEN 1 ELSE Max(prevLo, prevHi - 1)
         IN  \E hi \in (prevHi + 1)..Len(sents) :
                /\ chunks[k].text = JoinRange(sents, lo, hi)
                /\ OverlapChain(sents, k + 1, lo, hi)

\* C20: every chunk after the first starts with the last two sentences of
\* the chunk closed before it (its only sentence when it had one), then the
\* sentence that overflowed, and nothing before them, at every overflow of
\* the text: no chunk carries more than two sentences over from the one
\* before it.
C20_OverlapIsLastTwoSentences ==
    Chunked => OverlapChain(Sentences(text), 1, 1, 0)

---------------------------------------------------------------------------
(* Properties of the orchestrator's calls. *)

\* C21: a retrieve call on a query text that is not blank makes one request
\* to the embedding provider, for the query text alone, and when it is
\* answered one search request after it, with the vector of the query, the
\* effective top_k and the caller's filter, and returns what the search
\* returned; no retrieve or query call changes the collections.
C21_RetrieveReadsOnly ==
    [][Idle /\ last'.call.op \in {"retrieve", "query"} =>
        /\ collections' = collections
        /\ last'.call.op = "retrieve" /\ ~Blank(last'.call.query) =>
            LET made == requests'
                top_k == last'.call.top_k
                filter == last'.call.metadata_filter
            IN  /\ Len(made) >= 1
                /\ made[1].svc = "embeddings"
                /\ ~made[1].batch
                /\ made[1].input = last'.call.query
                /\ IF ~made[1].ok THEN Len(made) = 1 /\ last'.raised
                   ELSE /\ Len(made) = 2
                        /\ made[2].svc = "search"
                        /\ made[2].vector = Embed(last'.call.query)
                        /\ made[2].limit = (IF top_k.given /\ top_k.val # 0
                                            THEN top_k.val ELSE TOP_K_RESULTS)
                        /\ made[2].query_filter =
                              (IF filter.given /\ DOMAIN filter.val # {}
                               THEN Some(filter.val) ELSE None)
                        /\ ~last'.raised
                        /\ Len(last'.value) = Len(made[2].response)
                        /\ \A i \in 1..Len(last'.value) :
                            /\ last'.value[i].text = made[2].response[i].payload.text
                            /\ last'.value[i].score = made[2].response[i].score
                            /\ last'.value[i].metadata
                                    = made[2].response[i].payload.metadata]_vars

\* C21's case: a retrieve with a top_k and a filter on a collection that holds
\* points, answered with a result.
C21_Witness ==
    /\ Called("retrieve")
    /\ last.call.top_k = Some(2)
    /\ TruthyMap(last.call.metadata_filter)
    /\ Len(requests) = 2
    /\ Len(last.value) >= 1
    /\ Len(Stored) >= 2
    /\ Len(last.value) < Len(Stored)

\* The positions of the parts of a user prompt that are of one kind.
PartsOf(user, part) == {k \in 1..Len(user) : user[k].part = part}

\* The chat request is the one generate_response owes for the query, the
\* documents and the system prompt: not streamed, the system message the
\* caller's or the default when there is none or an empty one, and a user
\* prompt of one part per document, in the order given, the i-th numbered i
\* with its score and its text, and the question after the last of them.
PromptIsFor(request, asked, docs, system_prompt) ==
    /\ request.svc = "chat"
    /\ ~request.stream
    /\ request.system = (IF system_prompt.given /\ system_prompt.val # ""
                         THEN system_prompt.val ELSE DefaultSystemPrompt)
    /\ Cardinality(PartsOf(request.user, "Document")) = Len(docs)
    /\ \A i \in 1..Len(docs) :
        \E k \in PartsOf(request.user, "Document") :
            /\ request.user[k].ordinal = i
            /\ request.user[k].score = Format3f(docs[i].score)
            /\ request.user[k].text = docs[i].text
            /\ \A j \in PartsOf(request.user, "Document") :
                request.user[j].ordinal < i => j < k
    /\ Cardinality(PartsOf(request.user, "Question:")) = 1
    /\ \A q \in PartsOf(request.user, "Question:") :
        /\ request.user[q].text = asked
        /\ \A k \in PartsOf(request.user, "Document") : k < q

\* C22: a generate_response call makes one request, a completion that is not
\* streamed, with the system message and the user prompt built from its
\* documents in the order given, numbered 1..n, and the question after them;
\* the request of a query call is built so from the documents it retrieved.
C22_PromptFromContext ==
    /\ Called("generate_response") =>
        /\ Len(requests) = 1
        /\ PromptIsFor(requests[1], last.call.query, last.call.context_docs,
                       last.call.system_prompt)
    /\ Called("query") /\ RequestsTo("chat") # {} =>
        /\ Len(requests) = 3
        /\ PromptIsFor(requests[3], last.call.question,
                       Formatted(requests[2].response), None)

\* C22's case: three documents, the first and the last the same, and an
\* empty system prompt.
C22_Witness ==
    /\ Called("generate_response")
    /\ Len(last.call.context_docs) = 3
    /\ last.call.system_prompt = Some("")
    /\ requests[1].system = DefaultSystemPrompt
    /\ ~last.raised
    /\ last.value = LLMAnswer

---------------------------------------------------------------------------
(* The lifetime of a RAGRetriever. *)

CollectionExists == QDRANT_COLLECTION_NAME \in DOMAIN collections

\* C23: the constructor creates the collection before it returns and leaves
\* the instance CollectionReady; from then on every step, of a call that
\* returns or raises, leaves the instance CollectionReady and the collection
\* in existence.
C23_CollectionReadyForGood ==
    [][/\ phase = "Uninitialized" /\ phase' # phase =>
            /\ phase' = "CollectionReady"
            /\ last'.call.op = "__init__"
            /\ ~last'.raised
            /\ RequestsTo("create_collection")' # {}
            /\ ~CollectionExists
            /\ CollectionExists'
       /\ phase = "CollectionReady" =>
            /\ phase' = "CollectionReady"
            /\ CollectionExists
            /\ CollectionExists']_vars

\* C23's case: a call has raised on an instance that holds points; the
\* collection is there and the instance is CollectionReady.
C23_Witness ==
    /\ phase = "CollectionReady"
    /\ last.raised
    /\ Called("ingest_documents")
    /\ CollectionExists
    /\ Len(Stored) > 0

---------------------------------------------------------------------------
(* Where the collection is checked and created. *)

\* C24 as stated: in every ingest call that makes an upsert, a request for
\* the existing collections comes before the upsert.
C24_IngestChecksBeforeUpsert ==
    Called("ingest_documents") =>
        \A u \in RequestsTo("upsert") :
            \E g \in RequestsTo("get_collections") : g < u

\* C24, amended: the check for the collection and its creation are made once,
\* by the constructor; an ingest call that stores chunks makes no such check
\* and no creation of its own: its requests to the store are its one upsert,
\* which finds the collection the constructor created.
C24_ConstructorChecksOnce ==
    /\ Called("__init__") =>
        /\ Len(requests) = 2
        /\ requests[1].svc = "get_collections"
        /\ requests[2].svc = "create_collection"
        /\ requests[2].ok
    /\ Called("ingest_documents") /\ RequestsTo("upsert") # {} =>
        /\ RequestsTo("get_collections") = {}
        /\ RequestsTo("create_collection") = {}
        /\ Cardinality(RequestsTo("upsert")) = 1
        /\ \A u \in RequestsTo("upsert") : requests[u].ok
        /\ CollectionExists

\* C24's case: a second ingest call that stores chunks.
C24_Witness ==
    /\ Called("ingest_documents")
    /\ RequestsTo("upsert") # {}
    /\ \A u \in RequestsTo("upsert") : Len(Stored) > Len(requests[u].points)
    /\ ~last.raised

---------------------------------------------------------------------------
(* Failures of the providers. *)

\* The requests of the last call that a provider failed.
FailedProviderRequests ==
    {i \in 1..Len(requests) :
        requests[i].svc \in {"embeddings", "chat"} /\ ~requests[i].ok}

ProviderError(svc) ==
    IF svc = "embeddings" THEN "EmbeddingProviderError" ELSE "GenerationProviderError"

\* C25: when a provider fails a request of a retrieve, generate_response or
\* query call, the call raises that provider's error, the failed request is
\* the only one the call made to that provider, and it is the call's last
\* request: no search follows a failed embedding, no generation a failed
\* retrieval.
C25_ProviderFailureFailsFast ==
    Called("retrieve") \/ Called("generate_response") \/ Called("query") =>
        \A i \in FailedProviderRequests :
            /\ last.raised
            /\ last.error = ProviderError(requests[i].svc)
            /\ Cardinality(RequestsTo(requests[i].svc)) = 1
            /\ i = Len(requests)
            /\ requests[i].svc = "embeddings" =>
                RequestsTo("search") = {} /\ RequestsTo("chat") = {}

\* C25's case: a query whose embedding and search succeed and whose
\* generation fails.
C25_Witness ==
    /\ Called("query")
    /\ Len(requests) = 3
    /\ requests[3].svc = "chat"
    /\ ~requests[3].ok
    /\ last.raised
    /\ last.error = "GenerationProviderError"

---------------------------------------------------------------------------
(* The metadata of the chunks of raw texts. *)

\* For each chunk of the raw texts of a call, in order, the index of the text
\* it was cut from.
TextOfChunk(call) ==
    LET texts == ListOf(call.texts)
    IN  Flatten([i \in 1..Len(texts) |->
                    [k \in 1..Len(chunk_text(texts[i], EmptyMap, chunk_size)) |-> i]])

\* The metadata entry at the index of a text: the entry of the list when the
\* list reaches that far, the empty mapping otherwise.
MetadataAt(call, i) ==
    IF call.metadata.given /\ i <= Len(call.metadata.val)
    THEN call.metadata.val[i] ELSE EmptyMap

\* C26: an ingest call with the providers answering does not raise, whatever
\* the length of its metadata list; the point of every chunk cut from
\* texts[i] has metadata[i] as its metadata when the list has an entry there
\* and the empty mapping when it has none, in the upsert and in the
\* collection after it.
C26_MetadataByTextIndex ==
    Called("ingest_documents") =>
        LET owner == TextOfChunk(last.call)
            files == Len(OwedFileChunks(last.call))
        IN  /\ ~last.raised
            /\ Len(owner) > 0 =>
                /\ Cardinality(RequestsTo("upsert")) = 1
                /\ \A u \in RequestsTo("upsert") :
                    LET points == requests[u].points
                        before == Len(Stored) - Len(points)
                    IN  /\ Len(points) = files + Len(owner)
                        /\ \A j \in 1..Len(owner) :
                            /\ points[files + j].payload.metadata
                                    = MetadataAt(last.call, owner[j])
                            /\ Stored[before + files + j].payload
                                    = points[files + j].payload

\* C26's case: two raw texts that both give chunks and a metadata list of one
\* entry: the chunks of the second text are stored with the empty mapping.
C26_Witness ==
    /\ Called("ingest_documents")
    /\ Len(ListOf(last.call.texts)) = 2
    /\ Len(ListOf(last.call.metadata)) = 1
    /\ \E j, k \in 1..Len(TextOfChunk(last.call)) :
        TextOfChunk(last.call)[j] = 1 /\ TextOfChunk(last.call)[k] = 2
    /\ ~last.raised
    /\ Stored[Len(Stored)].payload.metadata = EmptyMap
    /\ Stored[Len(Stored) - 1].payload.metadata = Meta_ai

---------------------------------------------------------------------------
(* The conversation history of the FAQ assistant: a ConversationManager is  *)
(* constructed with any max_history, then turns are added and the history   *)
(* is cleared in any order. The timestamp of a turn is the count of the     *)
(* turns added so far.                                                      *)

\* Python's s[start:]: a negative start counts from the end, and -0 is 0.
SliceFrom(s, start) ==
    LET from == IF start < 0
                THEN (IF Len(s) + start > 0 THEN Len(s) + start ELSE 0)
                ELSE (IF start < Len(s) THEN start ELSE Len(s))
    IN  SubSeq(s, from + 1, Len(s))

SourceLists == {None, Some(<<>>), Some(<<Doc_a>>)}

\* ConversationManager(max_history)
NewConversation ==
    /\ ~conversation.constructed
    /\ \E max_history \in 0..MaxHistory :
            conversation' = [constructed |-> TRUE, max_history |-> max_history,
                             history |-> <<>>, added |-> 0]
    /\ UNCHANGED <<chunker_vars, pipeline_vars, clients>>

\* manager.add_turn(user_message, assistant_message, sources)
AddTurn ==
    /\ conversation.constructed
    /\ conversation.added < MaxTurns
    /\ \E user_message \in {Text_a, Text_a_a}, assistant_message \in {Text_a, Text_aa},
          sources \in SourceLists :
        LET turn == [timestamp |-> conversation.added + 1,
                     user |-> user_message,
                     assistant |-> assistant_message,
                     sources |-> IF TruthyList(sources) THEN sources.val ELSE <<>>]
            appended == Append(conversation.history, turn)
        IN  conversation' =
                [conversation EXCEPT
                    !.added = @ + 1,
                    !.history = IF Len(appended) > conversation.max_history
                                THEN SliceFrom(appended, 0 - conversation.max_history)
                                ELSE appended]
    /\ UNCHANGED <<chunker_vars, pipeline_vars, clients>>

\* manager.clear_history()
ClearHistory ==
    /\ conversation.constructed
    /\ conversation' = [conversation EXCEPT !.history = <<>>]
    /\ UNCHANGED <<chunker_vars, pipeline_vars, clients>>

NextConversation ==
    \/ NewConversation
    \/ AddTurn
    \/ ClearHistory

SpecConversation == Init /\ [][NextConversation]_vars

\* C27: whatever max_history the manager was constructed with, zero included,
\* the history holds at most max_history turns, and they are the turns added
\* last, in the order they were added: their timestamps are consecutive and,
\* when a turn was added since the last clear, end at the latest one.
C27_HistoryKeepsLastTurns ==
    conversation.constructed =>
        LET history == conversation.history
        IN  /\ Len(history) <= conversation.max_history
            /\ \A i \in 1..Len(history) - 1 :
                    history[i + 1].timestamp = history[i].timestamp + 1
            /\ Len(history) > 0 =>
                    history[Len(history)].timestamp = conversation.added

---------------------------------------------------------------------------
(* The chunks and their vectors side by side in an ingest call. *)

\* C28: in an ingest call, providers failing or not, no chunk has a text that
\* is empty or whitespace only, so the batch request carries the text of every
\* chunk and drops none; the call never raises ValueError, the error of a
\* list of texts and a list of vectors of different lengths; and the upsert
\* has as many points as the embedding request has texts, the point at
\* position i holding the text of chunk i, its metadata and the vector of
\* that text.
C28_ChunksAndVectorsAligned ==
    Called("ingest_documents") =>
        LET owed == OwedChunks(last.call)
        IN  /\ \A i \in 1..Len(owed) : ~IsBlank(owed[i].text)
            /\ last.raised => last.error # "ValueError"
            /\ \A e \in RequestsTo("embeddings") :
                /\ Len(requests[e].input) = Len(owed)
                /\ \A i \in 1..Len(owed) : ~IsBlank(requests[e].input[i])
                /\ \A u \in RequestsTo("upsert") :
                    /\ u > e
                    /\ Len(requests[u].points) = Len(requests[e].input)
                    /\ \A i \in 1..Len(owed) :
                        LET point == requests[u].points[i]
                        IN  /\ point.payload.text = requests[e].input[i]
                            /\ point.payload.text = owed[i].text
                            /\ point.payload.metadata = owed[i].metadata
                            /\ point.vector = Embed(owed[i].text)
            /\ ~last.raised /\ Len(owed) > 0 => RequestsTo("upsert") # {}

\* C28's case: an ingest call that returns after an upsert of two points of
\* different texts, different metadata and different vectors.
C28_Witness ==
    /\ Called("ingest_documents")
    /\ ~last.raised
    /\ \E u \in RequestsTo("upsert") :
        /\ Len(requests[u].points) >= 2
        /\ \E i, j \in 1..Len(requests[u].points) :
            /\ requests[u].points[i].payload.text # requests[u].points[j].payload.text
            /\ requests[u].points[i].vector # requests[u].points[j].vector
            /\ requests[u].points[i].payload.metadata
                    # requests[u].points[j].payload.metadata

---------------------------------------------------------------------------
(* Ingestion and direct writes to the store of one pipeline: a RAGRetriever *)
(* is constructed, then documents are ingested through it, the embedding    *)
(* provider answering or not, and added to its vector store directly.       *)

NextIngest ==
    \/ Construct
    \/ IngestDocuments(BOOLEAN)
    \/ AddDocuments
    \/ GetStats
    \/ TakeResult

SpecIngest == Init /\ [][NextIngest]_vars

\* The points of the pipeline's collection in a store.
PointsIn(store) ==
    IF QDRANT_COLLECTION_NAME \in DOMAIN store
    THEN store[QDRANT_COLLECTION_NAME].points ELSE <<>>

\* C29: an ingest_documents or add_documents call that raises leaves the
\* collections as they were. When the batch embedding fails, the call makes
\* no upsert; when add_documents raises for lists of different lengths, it
\* has made no request at all. An ingest call that returns has stored one
\* point per chunk it owed, after the points that were there: a call stores
\* all of its chunks or none.
C29_FailedWriteChangesNothing ==
    [][Idle /\ last'.call.op \in {"ingest_documents", "add_documents"} =>
        /\ last'.raised =>
            /\ collections' = collections
            /\ last'.error = "EmbeddingProviderError" =>
                \A i \in 1..Len(requests') : requests'[i].svc # "upsert"
            /\ last'.call.op = "add_documents" /\ last'.error = "ValueError" =>
                requests' = <<>>
        /\ last'.call.op = "ingest_documents" =>
            LET before == PointsIn(collections)
                after == PointsIn(collections')
                owed == OwedChunks(last'.call)
            IN  IF last'.raised THEN after = before
                ELSE /\ Len(after) = Len(before) + Len(owed)
                     /\ SubSeq(after, 1, Len(before)) = before
                     /\ \A i \in 1..Len(owed) :
                            after[Len(before) + i].payload.text = owed[i].text]_vars

\* C29's case: an ingest call of two chunks or more on a collection that
\* holds a point, the embedding provider failing: the call has raised, made
\* no upsert, and the point is still the only one.
C29_Witness ==
    /\ Called("ingest_documents")
    /\ Len(OwedChunks(last.call)) >= 2
    /\ last.raised
    /\ last.error = "EmbeddingProviderError"
    /\ RequestsTo("upsert") = {}
    /\ Len(Stored) = 1

---------------------------------------------------------------------------
(* Several VectorStore clients on one store server (use_memory=False), all  *)
(* with the same collection name: each calls create_collection once, and    *)
(* the requests of the calls reach the server in any order. `requests` is   *)
(* the log of the server.                                                   *)

\* The server as the clients find it: its collections and its log so far.
Server == [collections |-> collections, issued |-> issued, requests |-> requests]

\* store.create_collection(vector_size) is called on client c.
CallCreateCollection(c) ==
    /\ clients[c].pc = "idle"
    /\ \E vector_size \in VectorSizes :
            clients' = [clients EXCEPT ![c] = [pc |-> "check", vector_size |-> vector_size]]
    /\ UNCHANGED <<chunker_vars, pipeline_vars, conversation>>

\* Lines 50-55: client c lists the collections and returns when its own is
\* among them.
CheckExists(c) ==
    /\ clients[c].pc = "check"
    /\ LET listed == Q_get_collections(Server)
           exists == QDRANT_COLLECTION_NAME \in listed.value
       IN  /\ requests' = listed.w.requests
           /\ clients' = [clients EXCEPT ![c].pc = IF exists THEN "returned" ELSE "create"]
    /\ UNCHANGED <<chunker_vars, phase, collections, issued, last, conversation>>

\* Lines 58-69: client c asks the server to create the collection; an error
\* of the server is logged and raised again.
CreateRequest(c) ==
    /\ clients[c].pc = "create"
    /\ LET made == Q_create_collection(Server, QDRANT_COLLECTION_NAME,
                                       clients[c].vector_size, "Cosine")
       IN  /\ requests' = made.w.requests
           /\ collections' = made.w.collections
           /\ clients' = [clients EXCEPT ![c].pc = IF made.raised THEN "raised"
                                                   ELSE "returned"]
    /\ UNCHANGED <<chunker_vars, phase, issued, last, conversation>>

NextClients ==
    \E c \in Clients :
        \/ CallCreateCollection(c)
        \/ CheckExists(c)
        \/ CreateRequest(c)

SpecClients == Init /\ [][NextClients]_vars

\* C30: when two clients of one server have run create_collection
\* concurrently and no other client has called, then, in whatever order their
\* existence checks and create requests reached the server, the collection
\* exists, the server has created it exactly once, and neither call has
\* raised.
C30_CreatedOnceNoneRaises ==
    \A c, d \in Clients :
        /\ c # d
        /\ clients[c].pc \in {"returned", "raised"}
        /\ clients[d].pc \in {"returned", "raised"}
        /\ \A other \in Clients \ {c, d} : clients[other].pc = "idle"
        => /\ QDRANT_COLLECTION_NAME \in DOMAIN collections
           /\ Cardinality({i \in RequestsTo("create_collection") : requests[i].ok}) = 1
           /\ clients[c].pc = "returned"
           /\ clients[d].pc = "returned"

====
